---------------------------- MODULE Spec2Model ----------------------------
(***************************************************************************)
(* The gendy and gendyx opcodes of Csound (dynamic stochastic synthesis).  *)
(*                                                                         *)
(* Number representation.  MYFLT values are exact rationals kept as        *)
(* integers on a grid: amplitudes, durations, shape parameters and the     *)
(* knum control are counted in units of 1/FL_1, phase and speed in units   *)
(* of 1/(FL_1*esr), output samples in units of 1/OutUnit.  Floating-point  *)
(* rounding is not modelled.  The generator csoundRand31 is modelled at a  *)
(* width of RandBits bits instead of 31; BIPOLAR and dv2_31 follow from    *)
(* that width.  FL(0.0001) is the smallest positive grid value.            *)
(***************************************************************************)
EXTENDS Integers, Sequences, FiniteSets, TLC

(* ------------------------------ bounds -------------------------------- *)
RandBits  == 3      \* width of the modelled generator register
esr       == 8      \* host sample rate; csound->onedsr = 1/esr
ksmps     == 2      \* host block size, csound->ksmps
MaxCycles == 2      \* control cycles performed per run of the model

(* -------------------------- program constants -------------------------- *)
FL_1        == 16   \* FL(1.0): the number of grid units in 1.0
FL_0001     == 1    \* FL(0.0001) on the grid
GENDYMAXCPS == 8192
DefaultCps  == 12   \* FL(12.0), the capacity used when initcps < 1

TwoPow(n)   == 2 ^ n
BIPOLAR     == TwoPow(RandBits) - 1
dv2_31      == FL_1 \div TwoPow(RandBits)  \* one generator unit in grid units
PhaseOne    == FL_1 * esr                  \* FL(1.0) in phase units
OutUnit     == FL_1 * PhaseOne

NULL        == << >>                       \* AUXCH.auxp of an unallocated block

(* ------------------------------ helpers -------------------------------- *)
\* C's fmod on the grid: the result has the sign of x and magnitude < m.
FMOD(x, m) == IF x >= 0 THEN x % m ELSE -((-x) % m)

\* (int) of a MYFLT: truncation toward zero of a grid value.
IntCast(x) == IF x >= 0 THEN x \div FL_1 ELSE -((-x) \div FL_1)

\* POWER(x, e) for a phase value x and an exponent e, in phase units.  Only
\* the exponents 0 and 1 are modelled; pow(x, 0) is 1 for every x.
POWER(x, e) ==
  CASE e = 0 -> PhaseOne
    [] e = 1 -> x

\* csoundRand31: the linear-congruential step of the host generator at the
\* modelled width; it stores the new value in the register and returns it.
csoundRand31(seedVal) == (seedVal * 17) % BIPOLAR

\* (int32)((unsigned)rnd<<1) - BIPOLAR at the modelled width.  The shift is
\* reinterpreted as a signed value of RandBits+1 bits; the subtraction then
\* overflows the signed type for every rnd >= 2^(RandBits-1).  A build that
\* wraps gives the first value, one that computes in a wider register the
\* second.
Bipolar(wraps, rnd) ==
  LET sh == IF 2 * rnd >= TwoPow(RandBits)
              THEN 2 * rnd - TwoPow(RandBits + 1) ELSE 2 * rnd
      d  == sh - BIPOLAR
  IN  IF d < -TwoPow(RandBits) /\ wraps THEN d + TwoPow(RandBits + 1) ELSE d

\* Values of the transforms of cases 1..5 of gendy_distribution, evaluated
\* from the C expressions and rounded to the nearest grid point.  Rows are
\* the shape parameters FL_0001, FL_1/2 and FL_1; CauchyTable is indexed
\* by the bipolar value -31..15 (in grid units), the others by the unipolar
\* value rnd*dv2_31 in 1..15.
CauchyTable ==
  <<<<-48, -44, -41, -38, -35, -33, -31, -28, -27, -25, -23, -21, -20, -19,
      -17, -16, -15, -14, -12, -11, -10, -9, -8, -7, -6, -5, -5, -4, -3, -2,
      -1, 0, 1, 2, 3, 4, 5, 5, 6, 7, 8, 9, 10, 11, 12, 14, 15>>,
    <<2, 2, 2, 3, 3, 4, 5, 6, 7, 10, 14, 22, 53, -124, -29, -16, -11, -8,
      -7, -5, -4, -4, -3, -3, -2, -2, -1, -1, -1, -1, 0, 0, 0, 1, 1, 1, 1,
      2, 2, 3, 3, 4, 4, 5, 7, 8, 11>>,
    <<0, 1, 1, 1, 1, 1, 2, 2, 3, 3, 4, 6, 9, 19, -207, -16, -8, -5, -4, -3,
      -3, -2, -2, -1, -1, -1, -1, -1, 0, 0, 0, 0, 0, 0, 0, 1, 1, 1, 1, 1, 2,
      2, 3, 3, 4, 5, 8>>>>
LogistTable ==
  <<<<-14, -12, -10, -8, -6, -4, -2, 0, 2, 4, 6, 8, 10, 12, 14>>,
    <<-14, -11, -9, -7, -6, -4, -2, 0, 2, 4, 6, 7, 9, 11, 14>>,
    <<-6, -4, -3, -3, -2, -1, -1, 0, 1, 1, 2, 3, 3, 4, 6>>>>
HyperbcosTable ==
  <<<<-3, -6, -8, -10, -11, -11, -12, -13, -13, -14, -14, -15, -15, -15, -16>>,
    <<-2, -5, -7, -9, -10, -10, -11, -12, -13, -13, -14, -14, -15, -15, -16>>,
    <<15, 15, 14, 14, 13, 13, 12, 12, 11, 10, 10, 9, 8, 6, 3>>>>
ArcsineTable ==
  <<<<-14, -12, -10, -8, -6, -4, -2, 0, 2, 4, 6, 8, 10, 12, 14>>,
    <<-14, -13, -11, -9, -7, -4, -2, 0, 2, 4, 7, 9, 11, 13, 14>>,
    <<-16, -15, -13, -11, -9, -6, -3, 0, 3, 6, 9, 11, 13, 15, 16>>>>
ExponTable ==
  <<<<-14, -12, -10, -8, -6, -4, -2, 0, 2, 4, 6, 8, 10, 12, 14>>,
    <<-15, -13, -11, -10, -8, -6, -5, -3, -1, 1, 3, 6, 8, 11, 13>>,
    <<-16, -15, -15, -15, -14, -14, -13, -13, -12, -11, -11, -10, -8, -6, -3>>>>

ShapeRow(a) == CASE a = FL_0001 -> 1 [] a = FL_1 \div 2 -> 2 [] a = FL_1 -> 3

\* A distribution that takes a kind outside 0..6 to the nearest kind of the
\* range (mutant of gendy_distribution).
gendy_distribution_nearest(wraps, which, a0, rnd) ==
  LET a == IF a0 > FL_1 THEN FL_1 ELSE IF a0 < FL_0001 THEN FL_0001 ELSE a0
      u == rnd * dv2_31
      k == IF which > 6 THEN 6 ELSE IF which < 0 THEN 0 ELSE which
  IN  CASE k = 1 -> CauchyTable[ShapeRow(a)][Bipolar(wraps, rnd) * dv2_31 + 32]
        [] k = 2 -> LogistTable[ShapeRow(a)][u]
        [] k = 3 -> HyperbcosTable[ShapeRow(a)][u]
        [] k = 4 -> ArcsineTable[ShapeRow(a)][u]
        [] k = 5 -> ExponTable[ShapeRow(a)][u]
        [] k = 6 -> a
        [] OTHER -> Bipolar(wraps, rnd) * dv2_31

\* gendy_distribution(csound, which, a, rnd)
gendy_distribution(wraps, which, a0, rnd) ==
  LET a == IF a0 > FL_1 THEN FL_1 ELSE IF a0 < FL_0001 THEN FL_0001 ELSE a0
      u == rnd * dv2_31
  IN  CASE which = 1 -> CauchyTable[ShapeRow(a)][Bipolar(wraps, rnd) * dv2_31 + 32]
        [] which = 2 -> LogistTable[ShapeRow(a)][u]
        [] which = 3 -> HyperbcosTable[ShapeRow(a)][u]
        [] which = 4 -> ArcsineTable[ShapeRow(a)][u]
        [] which = 5 -> ExponTable[ShapeRow(a)][u]
        [] which = 6 -> a
        [] OTHER     -> Bipolar(wraps, rnd) * dv2_31

(* --------------------------- mirror steps ------------------------------ *)
\* Lines 149-157 (gendyx: 227-235): amplitude variations within the
\* boundaries of a mirror.
MirrorAmp(x) ==
  IF x < -FL_1 \/ x > FL_1
    THEN LET x1 == IF x < 0 THEN x + 4 * FL_1 ELSE x
             x2 == FMOD(x1, 4 * FL_1)
         IN  IF x2 > FL_1
               THEN (IF x2 < 3 * FL_1 THEN 2 * FL_1 - x2 ELSE x2 - 4 * FL_1)
               ELSE x2
    ELSE x

\* Lines 163-166 (gendyx: 240-243): time variations within the boundaries
\* of a mirror.
MirrorDur(d) ==
  IF d > FL_1 THEN 2 * FL_1 - FMOD(d, 2 * FL_1)
  ELSE IF d < 0 THEN 2 * FL_1 - FMOD(d + 2 * FL_1, 2 * FL_1)
  ELSE d

(* ------------------------- breakpoint advance -------------------------- *)
\* A clamp that takes a request below 1 to 1 (mutant of ClampKnum).
ClampKnumToRange(knum, initcps) ==
  IF knum > initcps THEN initcps ELSE IF knum < 1 THEN 1 ELSE knum

\* The clamp of the local knum against initcps, lines 141-142.
ClampKnum(knum, initcps) ==
  IF knum > initcps \/ knum < 1 THEN initcps ELSE knum

\* A step that forgets the increment (mutant of NextIndex).
NextIndexStuck(index, knum) == index % knum

\* A step that stops at the last position instead of wrapping (mutant of
\* NextIndex).
NextIndexSaturate(index, knum) == IF index + 1 < knum THEN index + 1 ELSE index

\* The new position in the store, line 143.
NextIndex(index, knum) == (index + 1) % knum

\* The first draw of an advance and the amplitude it gives, lines 145-157.
AmpDraw(wraps, p, ctl, index) ==
  LET r    == csoundRand31(p.rand)
      dist == gendy_distribution(wraps, ctl.ampdist, ctl.adpar, r)
  IN  [rand |-> r, nextamp |-> MirrorAmp(p.memamp[index] + ctl.ampscl * dist)]

\* A duration step that reuses the amplitude's draw (mutant of DurDraw).
DurDrawReuse(wraps, rand, p, ctl, index) ==
  LET dist == gendy_distribution(wraps, ctl.durdist, ctl.ddpar, rand)
  IN  [rand |-> rand, dur |-> MirrorDur(p.memdur[index] + ctl.durscl * dist)]

\* The second draw of an advance and the duration it gives, lines 159-166.
DurDraw(wraps, rand, p, ctl, index) ==
  LET r    == csoundRand31(rand)
      dist == gendy_distribution(wraps, ctl.durdist, ctl.ddpar, r)
  IN  [rand |-> r, dur |-> MirrorDur(p.memdur[index] + ctl.durscl * dist)]

\* A speed that scales dur by maxfreq instead of by the difference of the
\* two frequencies (mutant of Speed).
SpeedNoDifference(ctl, dur, knum) ==
  (ctl.minfreq * FL_1 + ctl.maxfreq * dur) * knum

\* Line 168-169, in phase units: onedsr = 1/esr.
Speed(ctl, dur, knum) ==
  (ctl.minfreq * FL_1 + (ctl.maxfreq - ctl.minfreq) * dur) * knum

\* An advance that stores the new amplitude and duration at the position
\* it came from instead of the new one (mutant of Advance).
AdvanceStoresAtOld(wraps, p, ctl, knum0, initcps) ==
  LET knum  == ClampKnum(knum0, initcps)
      index == NextIndex(p.index, knum)
      a     == AmpDraw(wraps, p, ctl, index)
      d     == DurDraw(wraps, a.rand, p, ctl, index)
  IN  [p    |-> [phase   |-> p.phase - PhaseOne,
                 amp     |-> p.nextamp,
                 nextamp |-> a.nextamp,
                 dur     |-> d.dur,
                 speed   |-> Speed(ctl, d.dur, knum),
                 index   |-> index,
                 rand    |-> d.rand,
                 memamp  |-> [p.memamp EXCEPT ![p.index] = a.nextamp],
                 memdur  |-> [p.memdur EXCEPT ![p.index] = d.dur]],
       knum |-> knum]

\* The body of "if (p->phase >= FL(1.0))", lines 139-169 (gendyx: 218-246).
\* knum0 is the local knum on entry; the result carries the clamped local.
Advance(wraps, p, ctl, knum0, initcps) ==
  LET knum  == ClampKnum(knum0, initcps)
      index == NextIndex(p.index, knum)
      a     == AmpDraw(wraps, p, ctl, index)
      d     == DurDraw(wraps, a.rand, p, ctl, index)
  IN  [p    |-> [phase   |-> p.phase - PhaseOne,
                 amp     |-> p.nextamp,
                 nextamp |-> a.nextamp,
                 dur     |-> d.dur,
                 speed   |-> Speed(ctl, d.dur, knum),
                 index   |-> index,
                 rand    |-> d.rand,
                 memamp  |-> [p.memamp EXCEPT ![index] = a.nextamp],
                 memdur  |-> [p.memdur EXCEPT ![index] = d.dur]],
       knum |-> knum]

\* A clock that applies the count it reads to the index on every sample,
\* also without an advance (mutant of Breakpoint).
BreakpointEagerCount(wraps, p, ctl, knum, initcps) ==
  IF p.phase >= PhaseOne
    THEN Advance(wraps, p, ctl, knum, initcps) @@ [adv |-> TRUE]
    ELSE [p    |-> [p EXCEPT !.index = @ % ClampKnum(knum, initcps)],
          knum |-> knum, adv |-> FALSE]

\* The breakpoint clock of one sample: the test of line 138 (gendyx: 217).
Breakpoint(wraps, p, ctl, knum, initcps) ==
  IF p.phase >= PhaseOne
    THEN Advance(wraps, p, ctl, knum, initcps) @@ [adv |-> TRUE]
    ELSE [p |-> p, knum |-> knum, adv |-> FALSE]

(* --------------------------- output samples ---------------------------- *)
\* An interpolation with the two breakpoint amplitudes exchanged (mutant
\* of LinearOut).
LinearOutSwapped(p, ctl) ==
  ctl.kamp * ((PhaseOne - p.phase) * p.nextamp + p.phase * p.amp)

\* Line 171, in units of 1/OutUnit.
LinearOut(p, ctl) ==
  ctl.kamp * ((PhaseOne - p.phase) * p.amp + p.phase * p.nextamp)

\* Lines 248-251: negative curve exponents are replaced in the argument
\* cells themselves.
ClampCurves(ctl) ==
  [ctl EXCEPT !.kcurveup   = IF @ < 0 THEN 0 ELSE @,
              !.kcurvedown = IF @ < 0 THEN 0 ELSE @]

\* A curved output that leaves the phase out of the interpolation (mutant
\* of CurvedOut).
CurvedOutNoPhase(p, ctl) ==
  ctl.kamp * (p.amp * PhaseOne + PhaseOne * (p.nextamp - p.amp))

\* Lines 252-253, in units of 1/OutUnit.
CurvedOut(p, ctl) ==
  LET curve == IF p.nextamp - p.amp > 0 THEN ctl.kcurveup ELSE ctl.kcurvedown
  IN  ctl.kamp * (p.amp * PhaseOne
                  + POWER(p.phase, curve) * (p.nextamp - p.amp))

\* The intermediate results b, c and s of the definitions below are bound
\* over one-element sets: each is computed once and then used as a value.
\*
\* One pass of the loop body of gendy_process_arate, lines 138-172.  The
\* result holds the structure after the pass, the local knum, the sample
\* written and, for the properties, the structure as it was when the sample
\* was computed (at), as it was before the pass (pre), whether the pass
\* advanced (adv), the local knum after it and the argument cells it read.
gendy_sample(wraps, p, ctl, knum, initcps) ==
  CHOOSE s \in
    {[p    |-> [b.p EXCEPT !.phase = b.p.phase + b.p.speed],
      ctl  |-> ctl,
      knum |-> b.knum,
      out  |-> LinearOut(b.p, ctl),
      log  |-> [adv |-> b.adv, pre |-> p, at |-> b.p, knum |-> b.knum,
                ctl |-> ctl]] :
       b \in {Breakpoint(wraps, p, ctl, knum, initcps)}} : TRUE

\* One pass of the loop body of gendyx_process_arate, lines 217-254.
gendyx_sample(wraps, p, ctl, knum, initcps) ==
  CHOOSE s \in
    {[p    |-> [b.p EXCEPT !.phase = b.p.phase + b.p.speed],
      ctl  |-> c,
      knum |-> b.knum,
      out  |-> CurvedOut(b.p, c),
      log  |-> [adv |-> b.adv, pre |-> p, at |-> b.p, knum |-> b.knum,
                ctl |-> ctl]] :
       b \in {Breakpoint(wraps, p, ctl, knum, initcps)},
       c \in {ClampCurves(ctl)}} : TRUE

\* The loop "for (n=0; n<nn; n++)" of either process function from pass n
\* on; outs is the output buffer written so far, logs what each pass did.
RECURSIVE ProcessLoop(_, _, _, _, _, _, _, _, _)
ProcessLoop(which, wraps, p, ctl, knum, initcps, n, outs, logs) ==
  IF n >= ksmps
    THEN [p |-> p, ctl |-> ctl, out |-> outs, log |-> logs]
    ELSE CHOOSE r \in
           {ProcessLoop(which, wraps, s.p, s.ctl, s.knum, initcps, n + 1,
                        Append(outs, s.out), Append(logs, s.log)) :
              s \in {IF which = "gendy"
                       THEN gendy_sample(wraps, p, ctl, knum, initcps)
                       ELSE gendyx_sample(wraps, p, ctl, knum, initcps)}} : TRUE

(* ------------------------------ creation ------------------------------- *)
\* A clamp that takes a request below 1 to the smallest capacity instead
\* of the default (mutant of ClampInitcps).
ClampInitcpsToOne(x) ==
  IF x < FL_1 THEN FL_1
  ELSE IF x > GENDYMAXCPS * FL_1 THEN GENDYMAXCPS * FL_1
  ELSE x

\* The clamp of the initcps argument cell, lines 107-110 (gendyx: 186-189).
ClampInitcps(x) ==
  IF x < FL_1 THEN DefaultCps * FL_1
  ELSE IF x > GENDYMAXCPS * FL_1 THEN GENDYMAXCPS * FL_1
  ELSE x

\* An allocator that returns to the opcode with a null block when the host
\* cannot provide the memory (mutant of AuxAlloc).
AuxAllocReturnsNull(ok, n) ==
  [ret |-> TRUE, auxp |-> IF ok THEN [j \in 0 .. n - 1 |-> 0] ELSE NULL]

\* csound->AuxAlloc: a block of n zeroed MYFLT when the host can provide
\* it (ok).  A request the host cannot satisfy is fatal to the creation of
\* the instance: the call does not return to the opcode (ret).
AuxAlloc(ok, n) ==
  [ret |-> ok, auxp |-> IF ok THEN [j \in 0 .. n - 1 |-> 0] ELSE NULL]

\* The fill loop of lines 117-122 (gendyx: 196-201) from point i on.
RECURSIVE FillStore(_, _, _, _, _, _)
FillStore(wraps, rand, memamp, memdur, i, initcps) ==
  IF i >= initcps
    THEN [rand |-> rand, memamp |-> memamp, memdur |-> memdur]
    ELSE LET r1 == csoundRand31(rand)
             r2 == csoundRand31(r1)
         IN  FillStore(wraps, r2,
                       [memamp EXCEPT ![i] = Bipolar(wraps, r1) * dv2_31],
                       [memdur EXCEPT ![i] = r2 * dv2_31],
                       i + 1, initcps)

\* A creation that starts the instance's register at the host's value
\* without drawing from the host generator (mutant of SeedDraw).
SeedDrawKeep(hostSeed) == hostSeed

\* The first draw of line 116 (gendyx: 195): the host register is advanced
\* and the instance register gets the value returned.
SeedDraw(hostSeed) == csoundRand31(hostSeed)

\* gendy_init / gendyx_init, lines 102-123 and 181-202, as a function of the
\* argument cell, the host register and the fate of the two allocations.
InitBody(wraps, cell, hostSeed, ok1, ok2) ==
  LET arg     == ClampInitcps(cell)
      initcps == IntCast(arg)
      a1      == AuxAlloc(ok1, initcps)
      a2      == AuxAlloc(ok2, initcps)
      head    == [phase |-> PhaseOne, amp |-> 0, nextamp |-> 0, dur |-> 0,
                  speed |-> 100 * PhaseOne, index |-> 0, rand |-> 0,
                  memamp |-> NULL, memdur |-> NULL]
      seed    == SeedDraw(hostSeed)
      f       == FillStore(wraps, seed, a1.auxp, a2.auxp, 0, initcps)
  IN  IF ~a1.ret
        THEN [ok |-> FALSE, cell |-> arg, host |-> hostSeed, p |-> head]
      ELSE IF ~a2.ret
        THEN [ok |-> FALSE, cell |-> arg, host |-> hostSeed,
              p |-> [head EXCEPT !.memamp = a1.auxp]]
      ELSE [ok |-> TRUE, cell |-> arg, host |-> seed,
            p |-> [head EXCEPT !.rand = f.rand, !.memamp = f.memamp,
                               !.memdur = f.memdur]]

(* ------------------------------- inputs -------------------------------- *)
Instances == 1 .. 2          \* places in the instrument's opcode chain
Seeds     == {1, 3}          \* values the host gives csound->randSeed1

\* Values of the initcps argument: below 1, fractional, whole.
InitcpsArgs == {0, 2 * FL_1 + FL_1 \div 2, 3 * FL_1}

\* The control arguments as the orchestra leaves them when it does not
\* vary them.
Default ==
  [kamp |-> 1, ampdist |-> 0, durdist |-> 0, adpar |-> FL_1, ddpar |-> FL_1,
   minfreq |-> 3, maxfreq |-> 3, ampscl |-> 1, durscl |-> 1,
   knum |-> 2 * FL_1, kcurveup |-> 1, kcurvedown |-> 1]

\* An orchestra varies one group of the control arguments at control rate
\* and holds the others at their Default.
Orchestras == {"count", "amp", "dur", "curve"}

Controls(o) ==
  CASE o = "count" ->
         {[Default EXCEPT !.knum = k, !.minfreq = f, !.maxfreq = f] :
            k \in {0, FL_1, 2 * FL_1 + FL_1 \div 2, 3 * FL_1, 9 * FL_1},
            f \in {1, 8}}
    [] o = "amp" ->
         {[Default EXCEPT !.ampdist = w, !.adpar = a, !.ampscl = s,
                          !.durdist = 7, !.ddpar = a] :
            w \in {1, 3, 6}, a \in {0, 2 * FL_1}, s \in {1, -6}}
    [] o = "dur" ->
         {[Default EXCEPT !.durdist = w, !.ddpar = FL_1 \div 2,
                          !.ampdist = -1, !.adpar = (w - 2) * (FL_1 \div 2),
                          !.durscl = sf[1],
                          !.minfreq = sf[2], !.maxfreq = sf[3]] :
            w \in {2, 4, 5, 6},
            sf \in {<<1, 1, 8>>, <<-6, 1, 8>>, <<-6, 8, 1>>, <<-6, 3, 3>>}}
    [] o = "curve" ->
         {[Default EXCEPT !.kamp = g, !.kcurveup = c[1], !.kcurvedown = c[2],
                          !.minfreq = 1, !.maxfreq = f] :
            g \in {1, 2}, c \in {<<1, 1>>, <<-1, 0>>, <<0, 1>>}, f \in {1, 2}}

(* -------------------------------- state -------------------------------- *)
VARIABLES
  randSeed1,  \* csound->randSeed1, the host generator's register
  wraps,      \* whether this build wraps the overflowing subtraction
  orc,        \* the orchestra in use
  ctl,        \* the control argument cells read by the process functions
  variant,    \* which opcode each instance is
  pc,         \* "absent", "new", "ready" (created) or "failed"
  initcps,    \* each instance's initcps argument cell
  inst,       \* each instance's GENDY / GENDYX structure
  out,        \* each instance's output buffer after its last block
  trace,      \* what each pass of each instance's last block did
  seedOf,     \* the value each instance drew from the host at creation
  nadv,       \* breakpoint advances each instance has made
  used,       \* the values of knum each instance has advanced with
  turn,       \* the instance the host performs next in this control cycle
  cycle       \* control cycles completed

vars == <<randSeed1, wraps, orc, ctl, variant, pc, initcps, inst, out, trace,
          seedOf, nadv, used, turn, cycle>>

\* An opcode structure as the host hands it to the init function: zeroed.
Blank ==
  [phase |-> 0, amp |-> 0, nextamp |-> 0, dur |-> 0, speed |-> 0,
   index |-> 0, rand |-> 0, memamp |-> NULL, memdur |-> NULL]

Present == {i \in Instances : pc[i] # "absent"}

InitCommon ==
  /\ randSeed1 \in Seeds
  /\ wraps \in BOOLEAN
  /\ orc \in Orchestras
  /\ ctl = Default
  /\ variant \in [Instances -> {"gendy", "gendyx"}]
  /\ initcps \in [Instances -> InitcpsArgs]
  /\ inst = [i \in Instances |-> Blank]
  /\ out = [i \in Instances |-> << >>]
  /\ trace = [i \in Instances |-> << >>]
  /\ seedOf = [i \in Instances |-> 0]
  /\ nadv = [i \in Instances |-> 0]
  /\ used = [i \in Instances |-> {}]
  /\ turn = 1
  /\ cycle = 0

\* One instance in the instrument.
Init ==
  /\ InitCommon
  /\ pc = [i \in Instances |-> IF i = 1 THEN "new" ELSE "absent"]
  /\ variant[2] = "gendy"
  /\ initcps[2] = 0

(* ------------------------------- actions ------------------------------- *)
\* The host sets its generator's register before an instance is created.
host_seed ==
  /\ \E i \in Instances : pc[i] = "new"
  /\ \E s \in Seeds : s # randSeed1 /\ randSeed1' = s
  /\ UNCHANGED <<wraps, orc, ctl, variant, pc, initcps, inst, out, trace,
                 seedOf, nadv, used, turn, cycle>>

\* The init pass reaches instance i: the instances before it in the chain
\* have been created.
InitTurn(i) ==
  /\ pc[i] = "new"
  /\ \A j \in Instances : j < i => pc[j] = "ready"

InitEffect(i, r) ==
  /\ pc' = [pc EXCEPT ![i] = IF r.ok THEN "ready" ELSE "failed"]
  /\ initcps' = [initcps EXCEPT ![i] = r.cell]
  /\ randSeed1' = r.host
  /\ inst' = [inst EXCEPT ![i] = r.p]
  /\ seedOf' = [seedOf EXCEPT ![i] = IF r.ok THEN r.host ELSE 0]
  /\ UNCHANGED <<wraps, orc, ctl, variant, out, trace, nadv, used, turn, cycle>>

gendy_init(i) ==
  /\ InitTurn(i)
  /\ variant[i] = "gendy"
  /\ \E ok1, ok2 \in BOOLEAN :
       \E r \in {InitBody(wraps, initcps[i], randSeed1, ok1, ok2)} :
         InitEffect(i, r)

gendyx_init(i) ==
  /\ InitTurn(i)
  /\ variant[i] = "gendyx"
  /\ \E ok1, ok2 \in BOOLEAN :
       \E r \in {InitBody(wraps, initcps[i], randSeed1, ok1, ok2)} :
         InitEffect(i, r)

\* The host performs instance i in this control cycle: every instance of
\* the instrument was created, and the ones before i have been performed.
PerfTurn(i) ==
  /\ Present # {}
  /\ \A j \in Present : pc[j] = "ready"
  /\ turn = i
  /\ i \in Present
  /\ cycle < MaxCycles

\* The control arguments instance i finds: the first instance of a cycle
\* sees what the orchestra computed for the cycle.
Arguments(i) == IF i = 1 THEN Controls(orc) ELSE {ctl}

Advances(logs) == {n \in 1 .. Len(logs) : logs[n].adv}

PerfEffect(i, r, host) ==
  /\ randSeed1' = host
  /\ inst' = [inst EXCEPT ![i] = r.p]
  /\ ctl' = r.ctl
  /\ out' = [out EXCEPT ![i] = r.out]
  /\ trace' = [trace EXCEPT ![i] = r.log]
  /\ nadv' = [nadv EXCEPT ![i] = @ + Cardinality(Advances(r.log))]
  /\ used' = [used EXCEPT ![i] = @ \cup {r.log[n].knum : n \in Advances(r.log)}]
  /\ IF i + 1 \in Present
       THEN turn' = i + 1 /\ cycle' = cycle
       ELSE turn' = 1 /\ cycle' = cycle + 1
  /\ UNCHANGED <<wraps, orc, variant, pc, initcps, seedOf>>

\* A process function that draws from the host's register instead of the
\* instance's (mutant of gendy_process_arate).
gendy_process_hostrand(i) ==
  /\ PerfTurn(i)
  /\ variant[i] = "gendy"
  /\ \E c \in Arguments(i) :
       \E r \in {ProcessLoop("gendy", wraps,
                              [inst[i] EXCEPT !.rand = randSeed1], c,
                              IntCast(c.knum), IntCast(initcps[i]), 0,
                              << >>, << >>)} :
         PerfEffect(i, [r EXCEPT !.p.rand = inst[i].rand], r.p.rand)

gendy_process_arate(i) ==
  /\ PerfTurn(i)
  /\ variant[i] = "gendy"
  /\ \E c \in Arguments(i) :
       \E r \in {ProcessLoop("gendy", wraps, inst[i], c, IntCast(c.knum),
                              IntCast(initcps[i]), 0, << >>, << >>)} :
         PerfEffect(i, r, randSeed1)

gendyx_process_arate(i) ==
  /\ PerfTurn(i)
  /\ variant[i] = "gendyx"
  /\ \E c \in Arguments(i) :
       \E r \in {ProcessLoop("gendyx", wraps, inst[i], c, IntCast(c.knum),
                              IntCast(initcps[i]), 0, << >>, << >>)} :
         PerfEffect(i, r, randSeed1)

Next ==
  \/ host_seed
  \/ \E i \in Instances : gendy_init(i)
  \/ \E i \in Instances : gendyx_init(i)
  \/ \E i \in Instances : gendy_process_arate(i)
  \/ \E i \in Instances : gendyx_process_arate(i)

Spec == Init /\ [][Next]_vars

\* Two instances in the instrument, given the same initcps argument of at
\* least 1; a gendy comes before a gendyx.
InitPair ==
  /\ InitCommon
  /\ pc = [i \in Instances |-> "new"]
  /\ initcps[1] = initcps[2]
  /\ initcps[1] >= FL_1
  /\ variant[1] = "gendy" \/ variant[2] = "gendyx"

SpecPair == InitPair /\ [][Next]_vars

(* ------------------------------ properties ----------------------------- *)
Ready == {i \in Instances : pc[i] = "ready"}

\* The passes of instance i's last block.
Passes(i) == DOMAIN trace[i]

\* The number of entries of the store allocated at creation.
Capacity(i) == Cardinality(DOMAIN inst[i].memamp)

\* C1: in both variants every output sample is computed with phase < 1.0,
\* every pending breakpoint advance having been made before it.  Stated for
\* the orchestra that varies only knum and the frequency, on a build whose
\* arithmetic wraps, where every stored value stays mirrored.
C1_PhaseBelowOneAtOutput ==
  \A i \in Ready :
    wraps /\ orc = "count" =>
      \A n \in Passes(i) : trace[i][n].at.phase < PhaseOne

\* C2: after creation nextamp, amp and every entry of the amplitude store
\* lie in [-1, 1] (stated for the builds whose arithmetic wraps).
C2_AmplitudesMirrored ==
  \A i \in Ready :
    wraps =>
      /\ inst[i].amp \in -FL_1 .. FL_1
      /\ inst[i].nextamp \in -FL_1 .. FL_1
      /\ \A j \in DOMAIN inst[i].memamp : inst[i].memamp[j] \in -FL_1 .. FL_1

\* C3: after creation dur and every entry of the duration store lie in
\* [0, 1] (stated for the builds whose arithmetic wraps).
C3_DurationsMirrored ==
  \A i \in Ready :
    wraps =>
      /\ inst[i].dur \in 0 .. FL_1
      /\ \A j \in DOMAIN inst[i].memdur : inst[i].memdur[j] \in 0 .. FL_1

\* C4: from creation and with the active count held constant, after N
\* breakpoint advances index equals N mod activeCount.
C4_IndexIsAdvancesModCount ==
  \A i \in Ready : \A k \in used[i] :
    used[i] = {k} => inst[i].index = nadv[i] % k

\* C4 witness: an instance that has advanced with one count of at least 2
\* more times than that count: the index has wrapped.
C4_Witness ==
  \E i \in Ready : \E k \in used[i] :
    used[i] = {k} /\ k >= 2 /\ nadv[i] > k /\ inst[i].index = nadv[i] % k

\* The count the specification gives for a requested knum and a capacity.
ExpectedCount(k, cap) == IF 1 <= k /\ k <= cap THEN k ELSE cap

\* C5: at every breakpoint advance the active count is the requested knum
\* when 1 <= knum <= capacity and the capacity otherwise, it is the modulus
\* of the index step, and it never exceeds the capacity.
C5_ActiveCountResolved ==
  \A i \in Ready : \A n \in Passes(i) :
    LET e == trace[i][n]
        k == IntCast(e.ctl.knum)
    IN  e.adv =>
          /\ e.knum = ExpectedCount(k, Capacity(i))
          /\ e.knum <= Capacity(i)
          /\ e.at.index = (e.pre.index + 1) % ExpectedCount(k, Capacity(i))

\* C5 witness: an advance made in the second block with a request below 1,
\* resolved to a capacity that is larger than 1.
C5_Witness ==
  \E i \in Ready : \E n \in Passes(i) :
    /\ trace[i][n].adv
    /\ IntCast(trace[i][n].ctl.knum) < 1
    /\ trace[i][n].knum = Capacity(i)
    /\ Capacity(i) > 1
    /\ cycle = 2

\* The active count the control argument read by the last block resolves to.
ActiveCount(i) == ClampKnum(IntCast(ctl.knum), Capacity(i))

\* C6 as stated: in every state 0 <= index < activeCount <= capacity.
C6_IndexBelowActiveCount ==
  \A i \in Ready :
    /\ 0 <= inst[i].index
    /\ inst[i].index < ActiveCount(i)
    /\ ActiveCount(i) <= Capacity(i)

\* C6 amended: in every state 0 <= index < capacity, and right after every
\* breakpoint advance 0 <= index < the active count of that advance <=
\* capacity; every pass reads and writes the store inside its allocation.
C6_IndexWithinStore ==
  \A i \in Ready :
    /\ inst[i].index \in 0 .. Capacity(i) - 1
    /\ DOMAIN inst[i].memamp = 0 .. Capacity(i) - 1
    /\ DOMAIN inst[i].memdur = 0 .. Capacity(i) - 1
    /\ \A n \in Passes(i) :
         /\ trace[i][n].at.index \in 0 .. Capacity(i) - 1
         /\ trace[i][n].adv =>
              /\ trace[i][n].at.index < trace[i][n].knum
              /\ trace[i][n].knum <= Capacity(i)

\* C6 witness: the control was lowered between advances and the index is
\* at or above the active count it now resolves to.
C6_Witness ==
  \E i \in Ready :
    /\ trace[i] # << >>
    /\ \A n \in Passes(i) : ~trace[i][n].adv
    /\ inst[i].index >= ActiveCount(i)

\* C7: a breakpoint advance steps the generator register exactly twice, the
\* first draw giving the amplitude and the second the duration, for every
\* pair of distribution kinds; a pass without an advance draws nothing, and
\* nothing else in a pass touches the register.
C7_TwoDrawsPerAdvance ==
  \A i \in Ready : \A n \in Passes(i) :
    LET e  == trace[i][n]
        r1 == csoundRand31(e.pre.rand)
        r2 == csoundRand31(r1)
        j  == e.at.index
    IN  /\ e.adv =>
             /\ e.at.rand = r2
             /\ e.at.nextamp =
                  MirrorAmp(e.pre.memamp[j] + e.ctl.ampscl *
                    gendy_distribution(wraps, e.ctl.ampdist, e.ctl.adpar, r1))
             /\ e.at.dur =
                  MirrorDur(e.pre.memdur[j] + e.ctl.durscl *
                    gendy_distribution(wraps, e.ctl.durdist, e.ctl.ddpar, r2))
        /\ ~e.adv => e.at.rand = e.pre.rand
        /\ IF n < Len(trace[i])
             THEN trace[i][n + 1].pre.rand = e.at.rand
             ELSE inst[i].rand = e.at.rand

\* C7 witness: a block with an advance whose kinds are the pass-through 6
\* and an out-of-range one, followed by a pass without an advance.
C7_Witness ==
  \E i \in Ready : \E n \in Passes(i) :
    /\ n < Len(trace[i])
    /\ trace[i][n].adv
    /\ ~trace[i][n + 1].adv
    /\ \/ trace[i][n].ctl.ampdist = 6 /\ trace[i][n].ctl.durdist \notin 0 .. 6
       \/ trace[i][n].ctl.durdist = 6 /\ trace[i][n].ctl.ampdist \notin 0 .. 6

\* C8: two instances of the same variant created with the same seed and
\* capacity and performed with the same control arguments have, after the
\* same number of blocks, the same structure, the same store contents and
\* the same output buffer, and were in the same state at every sample.
C8_SameSeedSameRun ==
  ( /\ Ready = Instances
    /\ variant[1] = variant[2]
    /\ seedOf[1] = seedOf[2]
    /\ Capacity(1) = Capacity(2)
    /\ turn = 1 )
  => /\ inst[1] = inst[2]
     /\ out[1] = out[2]
     /\ Len(trace[1]) = Len(trace[2])
     /\ \A n \in Passes(1) : trace[1][n].at = trace[2][n].at

\* C8 witness: two such instances after two blocks with breakpoint
\* advances, the host's register no longer holding their seed.
C8_Witness ==
  /\ Ready = Instances
  /\ variant[1] = variant[2]
  /\ seedOf[1] = seedOf[2]
  /\ turn = 1
  /\ cycle = 2
  /\ nadv[1] >= 2
  /\ nadv[2] >= 2
  /\ out[2] # << >>

\* C9: an instance whose store could not be allocated is not created and
\* no process step ever runs on it; a created instance holds both
\* sequences of its store, of the capacity asked for.
C9_FailedCreationNeverRuns ==
  \A i \in Instances :
    /\ pc[i] = "failed" =>
         /\ trace[i] = << >>
         /\ out[i] = << >>
         /\ nadv[i] = 0
         /\ cycle = 0
    /\ pc[i] = "ready" =>
         /\ inst[i].memamp # NULL
         /\ inst[i].memdur # NULL
         /\ DOMAIN inst[i].memamp = 0 .. IntCast(initcps[i]) - 1
         /\ DOMAIN inst[i].memdur = 0 .. IntCast(initcps[i]) - 1

\* C9 witness: a creation that failed on the second allocation, the first
\* block already allocated.
C9_Witness ==
  \E i \in Instances :
    pc[i] = "failed" /\ inst[i].memamp # NULL /\ inst[i].memdur = NULL

\* C10: in every state after creation speed > 0 (stated for the builds
\* whose arithmetic wraps; every orchestra gives positive frequencies).
C10_SpeedPositive ==
  \A i \in Ready : wraps => inst[i].speed > 0

\* C11: the mirror steps are idempotent: the amplitude mirror applied to
\* the amplitude an advance has just mirrored (a zero perturbation) returns
\* it unchanged, and likewise the duration mirror (stated for the builds
\* whose arithmetic wraps).
C11_MirrorIdempotent ==
  \A i \in Ready : \A n \in Passes(i) :
    wraps /\ trace[i][n].adv =>
      /\ MirrorAmp(trace[i][n].at.nextamp) = trace[i][n].at.nextamp
      /\ MirrorDur(trace[i][n].at.dur) = trace[i][n].at.dur

\* C12: a gendyx performed with kcurveup = kcurvedown = 1 beside a gendy
\* created with the same seed and capacity and given the same control
\* arguments is in the same state at every sample and writes the same
\* output samples.
C12_CurveOneIsLinear ==
  ( /\ Ready = Instances
    /\ variant[1] = "gendy"
    /\ variant[2] = "gendyx"
    /\ seedOf[1] = seedOf[2]
    /\ Capacity(1) = Capacity(2)
    /\ turn = 1
    /\ ctl.kcurveup = 1
    /\ ctl.kcurvedown = 1 )
  => /\ inst[1] = inst[2]
     /\ out[1] = out[2]
     /\ Len(trace[1]) = Len(trace[2])
     /\ \A n \in Passes(1) : trace[1][n].at = trace[2][n].at

\* C12 witness: such a pair after two blocks, the last with a sample
\* interpolated strictly between two different breakpoint amplitudes.
C12_Witness ==
  /\ Ready = Instances
  /\ variant[1] = "gendy"
  /\ variant[2] = "gendyx"
  /\ seedOf[1] = seedOf[2]
  /\ turn = 1
  /\ cycle = 2
  /\ ctl.kcurveup = 1
  /\ ctl.kcurvedown = 1
  /\ \E n \in Passes(2) :
       /\ trace[2][n].at.phase > 0
       /\ trace[2][n].at.phase < PhaseOne
       /\ trace[2][n].at.amp # trace[2][n].at.nextamp
       /\ out[2][n] # 0
       /\ out[2][n] = out[1][n]

\* Shape parameters below, inside and above the range [0.0001, 1].
Shapes == {0, FL_0001, FL_1 \div 2, FL_1, 2 * FL_1}

\* C13: for a kind outside 0..6, negative or above 6, gendy_distribution
\* returns what kind 0 returns for the same draw, the uniform bipolar value
\* of the draw, whatever the shape parameter is; the amplitude and duration
\* of an advance made with such a kind are those kind 0 gives.
C13_OutOfRangeKindIsUniform ==
  \A i \in Ready : \A n \in Passes(i) :
    LET e  == trace[i][n]
        r1 == csoundRand31(e.pre.rand)
        r2 == csoundRand31(r1)
        j  == e.at.index
    IN  e.adv =>
          /\ e.ctl.ampdist \notin 0 .. 6 =>
               \A a \in Shapes :
                 /\ gendy_distribution(wraps, e.ctl.ampdist, e.ctl.adpar, r1)
                      = gendy_distribution(wraps, 0, a, r1)
                 /\ gendy_distribution(wraps, 0, a, r1)
                      = Bipolar(wraps, r1) * dv2_31
                 /\ e.at.nextamp =
                      MirrorAmp(e.pre.memamp[j] + e.ctl.ampscl *
                                  gendy_distribution(wraps, 0, a, r1))
          /\ e.ctl.durdist \notin 0 .. 6 =>
               \A a \in Shapes :
                 /\ gendy_distribution(wraps, e.ctl.durdist, e.ctl.ddpar, r2)
                      = gendy_distribution(wraps, 0, a, r2)
                 /\ gendy_distribution(wraps, 0, a, r2)
                      = Bipolar(wraps, r2) * dv2_31
                 /\ e.at.dur =
                      MirrorDur(e.pre.memdur[j] + e.ctl.durscl *
                                  gendy_distribution(wraps, 0, a, r2))

\* C13 witness: an advance whose duration kind is above 6 with a shape
\* parameter above 1; the new duration differs from the stored one.
C13_Witness ==
  \E i \in Ready : \E n \in Passes(i) :
    /\ trace[i][n].adv
    /\ trace[i][n].ctl.durdist > 6
    /\ trace[i][n].ctl.ddpar > FL_1
    /\ trace[i][n].at.dur # trace[i][n].pre.memdur[trace[i][n].at.index]

\* C13 second case: an advance whose amplitude kind is negative with a
\* shape parameter below 0.0001.
C13_WitnessNegative ==
  \E i \in Ready : \E n \in Passes(i) :
    /\ trace[i][n].adv
    /\ trace[i][n].ctl.ampdist < 0
    /\ trace[i][n].ctl.adpar < FL_0001

\* The capacity the specification gives for a requested initcps (a grid
\* value): 12 below 1, 8192 above 8192, the request itself otherwise.
ExpectedCapacity(x) ==
  IF x < FL_1 THEN 12 ELSE IF x > 8192 * FL_1 THEN 8192 ELSE IntCast(x)

\* Requests at and above the largest capacity.
LargeRequests == {8192 * FL_1, 8192 * FL_1 + 1, 9000 * FL_1}

\* C14: creation replaces a requested capacity below 1 by 12 and one above
\* 8192 by 8192 and keeps any other; both sequences of the store get
\* exactly that many entries; afterwards the store is never resized, the
\* capacity read by the process functions stays that value, and no advance
\* uses a count above it.
C14_CapacityFixedAtCreation ==
  [][ /\ \A x \in LargeRequests :
           IntCast(ClampInitcps(x)) = ExpectedCapacity(x)
      /\ \A i \in Instances :
           /\ (pc[i] = "new" /\ pc'[i] = "ready") =>
                /\ IntCast(initcps'[i]) = ExpectedCapacity(initcps[i])
                /\ DOMAIN inst'[i].memamp = 0 .. ExpectedCapacity(initcps[i]) - 1
                /\ DOMAIN inst'[i].memdur = 0 .. ExpectedCapacity(initcps[i]) - 1
           /\ pc[i] = "ready" =>
                /\ pc'[i] = "ready"
                /\ initcps'[i] = initcps[i]
                /\ DOMAIN inst'[i].memamp = DOMAIN inst[i].memamp
                /\ DOMAIN inst'[i].memdur = DOMAIN inst[i].memdur
                /\ IntCast(initcps[i]) = Cardinality(DOMAIN inst[i].memamp)
                /\ \A n \in DOMAIN trace'[i] :
                     trace'[i][n].adv =>
                       /\ trace'[i][n].knum <= IntCast(initcps[i])
                       /\ IntCast(trace'[i][n].ctl.knum) > IntCast(initcps[i])
                            => trace'[i][n].knum = IntCast(initcps[i])
    ]_vars

\* C14 witness: an instance asked for with a capacity below 1, holding 12
\* entries after two blocks, whose last block advanced with all 12.
C14_Witness ==
  \E i \in Ready :
    /\ initcps[i] = 12 * FL_1
    /\ Capacity(i) = 12
    /\ DOMAIN inst[i].memdur = 0 .. 11
    /\ cycle = 2
    /\ \E n \in Passes(i) : trace[i][n].adv /\ trace[i][n].knum = 12

\* The value of the generator register k draws after it held s.
RECURSIVE Draw(_, _)
Draw(s, k) == IF k = 0 THEN s ELSE csoundRand31(Draw(s, k - 1))

\* The structure p holds a store filled by 2 * capacity consecutive draws
\* of a register that started at s: for each point in index order the
\* amplitude first, then the duration.
FilledFrom(p, s) ==
  LET cap == Cardinality(DOMAIN p.memamp)
  IN  /\ DOMAIN p.memamp = 0 .. cap - 1
      /\ DOMAIN p.memdur = 0 .. cap - 1
      /\ \A j \in 0 .. cap - 1 :
           /\ p.memamp[j] = Bipolar(wraps, Draw(s, 2 * j + 1)) * dv2_31
           /\ p.memdur[j] = Draw(s, 2 * j + 2) * dv2_31
      /\ p.rand = Draw(s, 2 * cap)

\* C15 as stated: the fill at creation is 2 * capacity draws, amplitude
\* then duration per point, of a register that starts at the host's seed
\* itself.
C15_FillStartsAtHostSeed ==
  [][ \A i \in Instances :
        (pc[i] = "new" /\ pc'[i] = "ready") => FilledFrom(inst'[i], randSeed1)
    ]_vars

\* C15 amended: the fill at creation is 2 * capacity draws, amplitude then
\* duration per point, of the instance's register, which starts at the
\* value one draw of the host generator returns; that draw advances the
\* host's register by one step, and the first amplitude comes from the
\* second step after the host's seed.
C15_FillStartsAfterHostDraw ==
  [][ \A i \in Instances :
        (pc[i] = "new" /\ pc'[i] = "ready") =>
          /\ FilledFrom(inst'[i], csoundRand31(randSeed1))
          /\ randSeed1' = csoundRand31(randSeed1)
          /\ seedOf'[i] = csoundRand31(randSeed1)
          /\ inst'[i].memamp[0]
               = Bipolar(wraps, Draw(randSeed1, 2)) * dv2_31
    ]_vars

\* C15 witness: an instance just created with 12 points, filled from the
\* value it drew from the host, which the host's register now holds.
C15_Witness ==
  \E i \in Ready :
    /\ nadv[i] = 0
    /\ trace[i] = << >>
    /\ Capacity(i) = 12
    /\ FilledFrom(inst[i], seedOf[i])
    /\ randSeed1 = seedOf[i]
    /\ inst[i].memamp[0] # inst[i].memamp[1]

\* The structure of instance i as pass n of its last block left it.
After(i, n) ==
  IF n < Len(trace[i]) THEN trace[i][n + 1].pre ELSE inst[i]

\* C16: a pass on which no breakpoint advance fires changes only phase, by
\* adding speed: index, amp, nextamp, dur, speed, the generator register
\* and both sequences of the store are as they were, whatever the control
\* arguments of the block are.
C16_NoAdvanceChangesOnlyPhase ==
  \A i \in Ready : \A n \in Passes(i) :
    LET e == trace[i][n]
    IN  ~e.adv =>
          /\ e.pre.phase < PhaseOne
          /\ e.at = e.pre
          /\ After(i, n) = [e.pre EXCEPT !.phase = e.pre.phase + e.pre.speed]

\* C16 witness: a pass without an advance in a block whose knum argument
\* resolves to a count at or below the index the instance stands at.
C16_Witness ==
  \E i \in Ready : \E n \in Passes(i) :
    /\ ~trace[i][n].adv
    /\ ClampKnum(IntCast(trace[i][n].ctl.knum), Capacity(i))
         <= trace[i][n].pre.index
    /\ After(i, n).index = trace[i][n].pre.index
    /\ After(i, n).phase # trace[i][n].pre.phase

\* C17: when minfreq = maxfreq, the speed computed at a breakpoint advance
\* is minfreq * onedsr * (active count), whatever the duration, its scale,
\* its distribution and the draws are; advances made with the same count
\* and frequency compute the same speed.
C17_EqualFreqsConstantSpeed ==
  \A i \in Ready : \A n \in Passes(i) :
    LET e == trace[i][n]
    IN  (e.adv /\ e.ctl.minfreq = e.ctl.maxfreq) =>
          /\ e.at.speed = e.ctl.minfreq * FL_1 * e.knum
          /\ \A m \in Passes(i) :
               (trace[i][m].adv /\ trace[i][m].knum = e.knum
                  /\ trace[i][m].ctl.minfreq = e.ctl.minfreq
                  /\ trace[i][m].ctl.maxfreq = e.ctl.maxfreq)
               => trace[i][m].at.speed = e.at.speed

\* C17 witness: two advances of one block with equal frequencies and the
\* same count whose durations differ, drawn with a duration scale of -6.
C17_Witness ==
  \E i \in Ready : \E n, m \in Passes(i) :
    /\ n < m
    /\ trace[i][n].adv
    /\ trace[i][m].adv
    /\ trace[i][n].ctl.minfreq = trace[i][n].ctl.maxfreq
    /\ trace[i][n].ctl.durscl = -6
    /\ trace[i][n].knum = trace[i][m].knum
    /\ trace[i][n].at.dur # trace[i][m].at.dur
    /\ trace[i][n].at.speed = trace[i][m].at.speed

\* C18: with positive minfreq and maxfreq, in either order, breakpoint
\* advances never stop and phase never decreases between advances.  A pass
\* without an advance leaves speed as it is and adds it to phase, so another
\* advance can follow a state only if phase is already at or above 1.0 or
\* speed is positive; the property states that of every state after a
\* block, and that no pass without an advance lowers phase (stated for the
\* builds whose arithmetic wraps; every orchestra gives positive
\* frequencies).
C18_AdvancesNeverStop ==
  \A i \in Ready :
    (wraps /\ trace[i] # << >> /\ ctl.minfreq > 0 /\ ctl.maxfreq > 0) =>
      /\ inst[i].phase >= PhaseOne \/ inst[i].speed > 0
      /\ \A n \in Passes(i) :
           ~trace[i][n].adv => After(i, n).phase >= trace[i][n].pre.phase

\* The amplitude and the duration the fill at creation gave point j of an
\* instance whose register started at s.
CreatedAmp(s, j) == Bipolar(wraps, Draw(s, 2 * j + 1)) * dv2_31
CreatedDur(s, j) == Draw(s, 2 * j + 2) * dv2_31

\* C19: a breakpoint advance writes the store only at the new index, (old
\* index + 1) mod (active count): every other entry of both sequences is
\* as before; and while every advance has used the same count k, the
\* entries at positions k .. capacity-1 hold their creation-time values.
C19_AdvanceWritesNewIndexOnly ==
  \A i \in Ready :
    /\ \A n \in Passes(i) :
         LET e   == trace[i][n]
             new == (e.pre.index + 1) % e.knum
         IN  e.adv =>
               /\ e.at.index = new
               /\ DOMAIN e.at.memamp = DOMAIN e.pre.memamp
               /\ DOMAIN e.at.memdur = DOMAIN e.pre.memdur
               /\ \A j \in DOMAIN e.pre.memamp \ {new} :
                    /\ e.at.memamp[j] = e.pre.memamp[j]
                    /\ e.at.memdur[j] = e.pre.memdur[j]
               /\ e.at.memamp[new] = e.at.nextamp
               /\ e.at.memdur[new] = e.at.dur
    /\ \A k \in used[i] :
         used[i] = {k} =>
           \A j \in k .. Capacity(i) - 1 :
             /\ inst[i].memamp[j] = CreatedAmp(seedOf[i], j)
             /\ inst[i].memdur[j] = CreatedDur(seedOf[i], j)

\* C19 witness: an instance that has gone round a count below its capacity
\* more than once in two blocks, with a written entry that differs from
\* its creation-time value.
C19_Witness ==
  \E i \in Ready : \E k \in used[i] :
    /\ used[i] = {k}
    /\ k < Capacity(i)
    /\ nadv[i] > k
    /\ cycle = 2
    /\ \E j \in 0 .. k - 1 : inst[i].memamp[j] # CreatedAmp(seedOf[i], j)
    /\ inst[i].memdur[k] = CreatedDur(seedOf[i], k)

\* The number of blocks instance i has performed.
Blocks(i) == cycle + (IF turn > i THEN 1 ELSE 0)

\* C20: from the first breakpoint advance on nextamp is the stored
\* amplitude at index and dur the stored duration at index; at each
\* advance the new amp is the nextamp held just before it; an instance is
\* created with phase 1.0, so that the first pass of its first block
\* advances, and the first sample gendy writes is 0, computed with amp 0
\* and phase 0.
C20_SegmentsJoin ==
  \A i \in Ready :
    /\ Blocks(i) = 0 => inst[i].phase = PhaseOne /\ nadv[i] = 0
    /\ Blocks(i) >= 1 =>
         /\ nadv[i] >= 1
         /\ inst[i].nextamp = inst[i].memamp[inst[i].index]
         /\ inst[i].dur = inst[i].memdur[inst[i].index]
    /\ \A n \in Passes(i) :
         LET e == trace[i][n]
         IN  /\ e.adv => e.at.amp = e.pre.nextamp
             /\ e.at.nextamp = e.at.memamp[e.at.index]
             /\ e.at.dur = e.at.memdur[e.at.index]
    /\ Blocks(i) = 1 =>
         /\ trace[i][1].pre.phase = PhaseOne
         /\ trace[i][1].adv
         /\ trace[i][1].at.amp = 0
         /\ trace[i][1].at.phase = 0
         /\ variant[i] = "gendy" => out[i][1] = 0

\* C20 witness: a gendy after its first block, whose first pass advanced
\* to a breakpoint amplitude other than 0 and wrote the sample 0, and whose
\* block made a second advance that joined at that amplitude.
C20_Witness ==
  \E i \in Ready :
    /\ variant[i] = "gendy"
    /\ Blocks(i) = 1
    /\ trace[i][1].adv
    /\ trace[i][1].at.nextamp # 0
    /\ out[i][1] = 0
    /\ trace[i][2].adv
    /\ trace[i][2].at.amp = trace[i][1].at.nextamp
    /\ out[i][2] # 0

=============================================================================
